---- MODULE Spec2Model ----
(***************************************************************************)
(* Model of loading_documents/document_loader.py: the three Loader         *)
(* variants, DocumentLoaderFactory.create_loader, DocumentProcessorConfig  *)
(* and the DocumentProcessor facade, together with the file system and the *)
(* external parsers / text splitter they call.                             *)
(*                                                                         *)
(* A path and a text are sequences of one-character strings; a message is  *)
(* a sequence of text fragments (the f-string prefix followed by the       *)
(* characters or fragments of str(e)).                                     *)
(***************************************************************************)
EXTENDS Integers, Sequences, FiniteSets, TLC

VARIABLES fs, config, processor, loader, result

vars == <<fs, config, processor, loader, result>>

(***************************************************************************)
(* Bounds of the model.                                                    *)
(***************************************************************************)
\* at most this many paths exist at once
MaxFiles == 1
\* chunk sizes and overlaps range over -1 .. MaxChunk (and the defaults)
MaxChunk == 3

\* DocumentProcessorConfig.__init__ defaults
DefaultChunkSize == 100
DefaultChunkOverlap == 20
\* the configuration of the example usage
ExampleChunkSize == 150
ExampleChunkOverlap == 30

(***************************************************************************)
(* Paths, file contents and the file system.                               *)
(***************************************************************************)
Paths ==
    { <<"a", ".", "p", "d", "f">>,
      <<"a", ".", "P", "d", "F">>,
      <<"a", ".", "d", "o", "c", "x">>,
      <<"b", ".", "a", ".", "T", "x", "t">>,
      <<"a", ".", "c", "s", "v">>,
      <<".", "t", "x", "t">>,
      <<"d", ".", "p", "d", "f", "/", "b">> }

\* one path of each format, for the runs that load through a held Loader
LoadPaths ==
    { <<"a", ".", "p", "d", "f">>,
      <<"a", ".", "d", "o", "c", "x">>,
      <<"b", ".", "a", ".", "T", "x", "t">> }

Absent == [kind |-> "absent", pages |-> << >>, corrupt |-> FALSE]
Directory == [kind |-> "dir", pages |-> << >>, corrupt |-> FALSE]
GoodFile == [kind |-> "file", corrupt |-> FALSE,
             pages |-> << <<"a", "b", "c", "d">>, <<"e", "f">> >>]
CorruptFile == [kind |-> "file", corrupt |-> TRUE, pages |-> << >>]

Contents == {Directory, GoodFile, CorruptFile}

\* os.path.exists
exists(fsys, p) == fsys[p].kind # "absent"

\* str.lower, one character at a time
LowerChar(c) ==
    CASE c = "P" -> "p" [] c = "D" -> "d" [] c = "F" -> "f"
      [] c = "O" -> "o" [] c = "C" -> "c" [] c = "X" -> "x"
      [] c = "T" -> "t" [] OTHER -> c

lower(s) == [i \in 1..Len(s) |-> LowerChar(s[i])]

\* str.rfind of a single character, 1-based; 0 when the character is absent
rfind(s, c) ==
    LET hits == {i \in 1..Len(s) : s[i] = c}
    IN  IF hits = {} THEN 0 ELSE CHOOSE i \in hits : \A j \in hits : j <= i

\* os.path.splitext(p)[1]: the extension starts at the last dot of the last
\* component, unless that component consists of leading dots only up to it
splitext(p) ==
    LET sepIndex == rfind(p, "/")
        dotIndex == rfind(p, ".")
    IN  IF dotIndex > sepIndex
           /\ \E k \in (sepIndex + 1)..(dotIndex - 1) : p[k] # "."
        THEN SubSeq(p, dotIndex, Len(p))
        ELSE << >>

(***************************************************************************)
(* Exceptions: the classes that occur, and isinstance over their bases.    *)
(***************************************************************************)
Base(cls) ==
    CASE cls \in {"FileNotFoundError", "IsADirectoryError"} -> "OSError"
      [] cls = "BaseException" -> "BaseException"
      [] cls = "Exception" -> "BaseException"
      [] OTHER -> "Exception"

RECURSIVE isinstance(_, _)
isinstance(cls, of) ==
    IF cls = of THEN TRUE
    ELSE IF cls = "BaseException" THEN FALSE
    ELSE isinstance(Base(cls), of)

NoLoader == [variant |-> "-", file_path |-> << >>, parser |-> "-"]
NoSplitter == [chunk_size |-> 0, chunk_overlap |-> 0]
NoConfig == [made |-> FALSE, chunk_size |-> 0, chunk_overlap |-> 0]

\* The outcome of a call: what it returned or raised, and what it did on the
\* way (parser classes instantiated, Loader method called, splitter passed).
Outcome(kind, exc, msg, docs, ldr, spl, parsers, called) ==
    [kind |-> kind, exc |-> exc, msg |-> msg, docs |-> docs, loader |-> ldr,
     splitter |-> spl, parsers |-> parsers, called |-> called]

Raise(exc, msg, parsers) ==
    Outcome("raise", exc, msg, << >>, NoLoader, NoSplitter, parsers, "-")
ReturnDocs(docs) ==
    Outcome("return", "-", << >>, docs, NoLoader, NoSplitter, {}, "-")
ReturnLoader(ldr, parsers) ==
    Outcome("return", "-", << >>, << >>, ldr, NoSplitter, parsers, "-")
ReturnSplitter(spl) ==
    Outcome("return", "-", << >>, << >>, NoLoader, spl, {}, "-")
ReturnNone ==
    Outcome("return", "-", << >>, << >>, NoLoader, NoSplitter, {}, "-")

(***************************************************************************)
(* External collaborators: the format parsers and the text splitter of     *)
(* langchain, as the Loader variants call them.                            *)
(***************************************************************************)
Document(text, p) == [page_content |-> text, source |-> p]

RECURSIVE Concat(_)
Concat(pages) ==
    IF pages = << >> THEN << >> ELSE Head(pages) \o Concat(Tail(pages))

NotAFile(p) == <<"File path ">> \o p \o <<" is not a valid file or url">>
NoSuchFile(p) == <<"No such file or directory: ">> \o p

\* PyPDFLoader(file_path): refuses a path that is no regular file
PyPDFLoader(fsys, p) ==
    IF fsys[p].kind # "file"
    THEN Raise("ValueError", NotAFile(p), {"PyPDFLoader"})
    ELSE ReturnLoader(NoLoader, {"PyPDFLoader"})

\* Docx2txtLoader(file_path): refuses a path that is no regular file
Docx2txtLoader(fsys, p) ==
    IF fsys[p].kind # "file"
    THEN Raise("ValueError", NotAFile(p), {"Docx2txtLoader"})
    ELSE ReturnLoader(NoLoader, {"Docx2txtLoader"})

\* TextLoader(file_path): stores the path, checks nothing
TextLoader(fsys, p) == ReturnLoader(NoLoader, {"TextLoader"})

\* PyPDFLoader.load: one Document per page
PyPDFLoader_load(fsys, p) ==
    CASE fsys[p].kind = "absent" -> Raise("FileNotFoundError", NoSuchFile(p), {})
      [] fsys[p].kind = "dir" -> Raise("IsADirectoryError", <<"Is a directory: ">> \o p, {})
      [] fsys[p].corrupt -> Raise("PdfReadError", <<"EOF marker not found">>, {})
      [] OTHER -> ReturnDocs([i \in 1..Len(fsys[p].pages) |->
                                  Document(fsys[p].pages[i], p)])

\* Docx2txtLoader.load: the whole text as one Document
Docx2txtLoader_load(fsys, p) ==
    CASE fsys[p].kind = "absent" -> Raise("FileNotFoundError", NoSuchFile(p), {})
      [] fsys[p].kind = "dir" -> Raise("IsADirectoryError", <<"Is a directory: ">> \o p, {})
      [] fsys[p].corrupt -> Raise("BadZipFile", <<"File is not a zip file">>, {})
      [] OTHER -> ReturnDocs(<<Document(Concat(fsys[p].pages), p)>>)

\* TextLoader.load: the whole text as one Document; every failure is
\* re-raised by the parser as RuntimeError("Error loading <path>")
TextLoader_load(fsys, p) ==
    IF fsys[p].kind # "file" \/ fsys[p].corrupt
    THEN Raise("RuntimeError", <<"Error loading ">> \o p, {})
    ELSE ReturnDocs(<<Document(Concat(fsys[p].pages), p)>>)

\* RecursiveCharacterTextSplitter.split_text on a text without separators:
\* windows of chunk_size characters, each starting chunk_size - chunk_overlap
\* after the previous one
RECURSIVE SplitText(_, _, _)
SplitText(text, spl, start) ==
    IF start > Len(text) THEN << >>
    ELSE IF start + spl.chunk_size - 1 >= Len(text)
    THEN <<SubSeq(text, start, Len(text))>>
    ELSE <<SubSeq(text, start, start + spl.chunk_size - 1)>>
         \o SplitText(text, spl, start + spl.chunk_size - spl.chunk_overlap)

\* RecursiveCharacterTextSplitter.split_documents: the chunks of each
\* Document in order, each keeping its Document's metadata
RECURSIVE split_documents(_, _)
split_documents(docs, spl) ==
    IF docs = << >> THEN << >>
    ELSE LET chunks == SplitText(Head(docs).page_content, spl, 1)
         IN  [i \in 1..Len(chunks) |-> Document(chunks[i], Head(docs).source)]
             \o split_documents(Tail(docs), spl)

\* BaseLoader.load_and_split(text_splitter): load, then split
BaseLoader_load_and_split(loaded, spl) ==
    IF loaded.kind = "raise" THEN loaded
    ELSE ReturnDocs(split_documents(loaded.docs, spl))

(***************************************************************************)
(* The Loader variants (document_loader.py 25-81).                         *)
(***************************************************************************)
FileNotFound(p) == Raise("FileNotFoundError", <<"File not found: ">> \o p, {})

\* mutant: the wrapper drops str(e) from the message
WrapFileLoadError_NoMessage(out, prefix) ==
    IF out.kind = "raise" /\ isinstance(out.exc, "Exception")
    THEN Raise("FileLoadError", <<prefix>>, {})
    ELSE out

\* try: return <call> / except Exception as e: raise FileLoadError(prefix + str(e))
WrapFileLoadError(out, prefix) ==
    IF out.kind = "raise" /\ isinstance(out.exc, "Exception")
    THEN Raise("FileLoadError", <<prefix>> \o out.msg, {})
    ELSE out

\* mutant: the parser is built before the existence check
PDFDocumentLoader_init_ParserFirst(fsys, p) ==
    LET made == PyPDFLoader(fsys, p)
    IN  IF made.kind = "raise" THEN made
        ELSE IF ~exists(fsys, p) THEN FileNotFound(p)
        ELSE ReturnLoader([variant |-> "pdf", file_path |-> p,
                           parser |-> "PyPDFLoader"], made.parsers)

PDFDocumentLoader_init(fsys, p) ==
    IF ~exists(fsys, p) THEN FileNotFound(p)
    ELSE LET made == PyPDFLoader(fsys, p)
         IN  IF made.kind = "raise" THEN made
             ELSE ReturnLoader([variant |-> "pdf", file_path |-> p,
                                parser |-> "PyPDFLoader"], made.parsers)

PDFDocumentLoader_load(fsys, self) ==
    WrapFileLoadError(PyPDFLoader_load(fsys, self.file_path),
                      "Error loading PDF file: ")

PDFDocumentLoader_load_and_split(fsys, self, text_splitter) ==
    WrapFileLoadError(
        BaseLoader_load_and_split(PyPDFLoader_load(fsys, self.file_path),
                                  text_splitter),
        "Error loading and splitting PDF file: ")

DOCXDocumentLoader_init(fsys, p) ==
    IF ~exists(fsys, p) THEN FileNotFound(p)
    ELSE LET made == Docx2txtLoader(fsys, p)
         IN  IF made.kind = "raise" THEN made
             ELSE ReturnLoader([variant |-> "docx", file_path |-> p,
                                parser |-> "Docx2txtLoader"], made.parsers)

DOCXDocumentLoader_load(fsys, self) ==
    WrapFileLoadError(Docx2txtLoader_load(fsys, self.file_path),
                      "Error loading DOCX file: ")

DOCXDocumentLoader_load_and_split(fsys, self, text_splitter) ==
    WrapFileLoadError(
        BaseLoader_load_and_split(Docx2txtLoader_load(fsys, self.file_path),
                                  text_splitter),
        "Error loading and splitting DOCX file: ")

TXTDocumentLoader_init(fsys, p) ==
    IF ~exists(fsys, p) THEN FileNotFound(p)
    ELSE LET made == TextLoader(fsys, p)
         IN  IF made.kind = "raise" THEN made
             ELSE ReturnLoader([variant |-> "txt", file_path |-> p,
                                parser |-> "TextLoader"], made.parsers)

TXTDocumentLoader_load(fsys, self) ==
    WrapFileLoadError(TextLoader_load(fsys, self.file_path),
                      "Error loading TXT file: ")

TXTDocumentLoader_load_and_split(fsys, self, text_splitter) ==
    WrapFileLoadError(
        BaseLoader_load_and_split(TextLoader_load(fsys, self.file_path),
                                  text_splitter),
        "Error loading and splitting TXT file: ")

\* dynamic dispatch of loader.load() / loader.load_and_split(text_splitter)
load(fsys, self) ==
    CASE self.variant = "pdf" -> PDFDocumentLoader_load(fsys, self)
      [] self.variant = "docx" -> DOCXDocumentLoader_load(fsys, self)
      [] OTHER -> TXTDocumentLoader_load(fsys, self)

load_and_split(fsys, self, text_splitter) ==
    CASE self.variant = "pdf" ->
             PDFDocumentLoader_load_and_split(fsys, self, text_splitter)
      [] self.variant = "docx" ->
             DOCXDocumentLoader_load_and_split(fsys, self, text_splitter)
      [] OTHER -> TXTDocumentLoader_load_and_split(fsys, self, text_splitter)

(***************************************************************************)
(* DocumentLoaderFactory.create_loader (document_loader.py 88-103).        *)
(***************************************************************************)
\* mutant: the extension is compared without lower()
create_loader_NoLower(fsys, p) ==
    IF ~exists(fsys, p) THEN FileNotFound(p)
    ELSE LET ext == splitext(p)
         IN  CASE ext = <<".", "p", "d", "f">> -> PDFDocumentLoader_init(fsys, p)
               [] ext = <<".", "d", "o", "c", "x">> -> DOCXDocumentLoader_init(fsys, p)
               [] ext = <<".", "t", "x", "t">> -> TXTDocumentLoader_init(fsys, p)
               [] OTHER -> Raise("UnsupportedFileTypeError",
                                 <<"Unsupported file type: ">> \o ext, {})

\* mutant: an unrecognized extension falls back to the TXT loader
create_loader_TxtFallback(fsys, p) ==
    IF ~exists(fsys, p) THEN FileNotFound(p)
    ELSE LET ext == lower(splitext(p))
         IN  CASE ext = <<".", "p", "d", "f">> -> PDFDocumentLoader_init(fsys, p)
               [] ext = <<".", "d", "o", "c", "x">> -> DOCXDocumentLoader_init(fsys, p)
               [] OTHER -> TXTDocumentLoader_init(fsys, p)

create_loader(fsys, p) ==
    IF ~exists(fsys, p) THEN FileNotFound(p)
    ELSE LET ext == lower(splitext(p))
         IN  CASE ext = <<".", "p", "d", "f">> -> PDFDocumentLoader_init(fsys, p)
               [] ext = <<".", "d", "o", "c", "x">> -> DOCXDocumentLoader_init(fsys, p)
               [] ext = <<".", "t", "x", "t">> -> TXTDocumentLoader_init(fsys, p)
               [] OTHER -> Raise("UnsupportedFileTypeError",
                                 <<"Unsupported file type: ">> \o ext, {})

(***************************************************************************)
(* DocumentProcessorConfig (document_loader.py 106-125).                   *)
(***************************************************************************)
InvalidConfiguration(text) == Raise("InvalidConfigurationError", <<text>>, {})

\* A method that can assign to its object yields the object as the call
\* leaves it (self) and the call's outcome (out).
Call(self, out) == [self |-> self, out |-> out]

\* mutant: chunk_overlap == chunk_size is let through
DocumentProcessorConfig_init_OffByOne(chunk_size, chunk_overlap) ==
    IF chunk_size <= 0
    THEN Call(NoConfig, InvalidConfiguration("chunk_size must be positive"))
    ELSE IF chunk_overlap < 0
    THEN Call(NoConfig, InvalidConfiguration("chunk_overlap cannot be negative"))
    ELSE IF chunk_overlap > chunk_size
    THEN Call(NoConfig, InvalidConfiguration(
                  "chunk_overlap must be smaller than chunk_size"))
    ELSE Call([made |-> TRUE, chunk_size |-> chunk_size,
               chunk_overlap |-> chunk_overlap], ReturnNone)

\* mutant: the overlap checks come before the size check
DocumentProcessorConfig_init_OverlapFirst(chunk_size, chunk_overlap) ==
    IF chunk_overlap < 0
    THEN Call(NoConfig, InvalidConfiguration("chunk_overlap cannot be negative"))
    ELSE IF chunk_overlap >= chunk_size
    THEN Call(NoConfig, InvalidConfiguration(
                  "chunk_overlap must be smaller than chunk_size"))
    ELSE IF chunk_size <= 0
    THEN Call(NoConfig, InvalidConfiguration("chunk_size must be positive"))
    ELSE Call([made |-> TRUE, chunk_size |-> chunk_size,
               chunk_overlap |-> chunk_overlap], ReturnNone)

DocumentProcessorConfig_init(chunk_size, chunk_overlap) ==
    IF chunk_size <= 0
    THEN Call(NoConfig, InvalidConfiguration("chunk_size must be positive"))
    ELSE IF chunk_overlap < 0
    THEN Call(NoConfig, InvalidConfiguration("chunk_overlap cannot be negative"))
    ELSE IF chunk_overlap >= chunk_size
    THEN Call(NoConfig, InvalidConfiguration(
                  "chunk_overlap must be smaller than chunk_size"))
    ELSE Call([made |-> TRUE, chunk_size |-> chunk_size,
               chunk_overlap |-> chunk_overlap], ReturnNone)

\* mutant: the splitter is built with the default parameters
create_text_splitter_Defaults(self) ==
    Call(self, ReturnSplitter([chunk_size |-> DefaultChunkSize,
                               chunk_overlap |-> DefaultChunkOverlap]))

create_text_splitter(self) ==
    Call(self, ReturnSplitter([chunk_size |-> self.chunk_size,
                               chunk_overlap |-> self.chunk_overlap]))

(***************************************************************************)
(* DocumentProcessor (document_loader.py 128-150).                         *)
(***************************************************************************)
NoProcessor == [made |-> FALSE, config |-> NoConfig]

\* self.config = config or DocumentProcessorConfig(); a config object is
\* truthy, None (NoConfig) is not
DocumentProcessor_init(cfg) ==
    IF cfg.made THEN Call([made |-> TRUE, config |-> cfg], ReturnNone)
    ELSE LET dflt == DocumentProcessorConfig_init(DefaultChunkSize,
                                                  DefaultChunkOverlap)
         IN  IF dflt.out.kind = "raise" THEN Call(NoProcessor, dflt.out)
             ELSE Call([made |-> TRUE, config |-> dflt.self], ReturnNone)

\* mutant: the last clause, except Exception, is missing
process_document_except_NoCatchAll(e) ==
    IF e.kind # "raise" THEN e
    ELSE IF isinstance(e.exc, "FileNotFoundError")
            \/ isinstance(e.exc, "UnsupportedFileTypeError")
    THEN [e EXCEPT !.exc = "FileLoadError",
                   !.msg = <<"Document processing failed: ">> \o e.msg]
    ELSE e

\* mutant: only the catch-all clause is there
process_document_except_OnlyCatchAll(e) ==
    IF e.kind # "raise" THEN e
    ELSE IF isinstance(e.exc, "Exception")
    THEN [e EXCEPT !.exc = "FileLoadError",
                   !.msg = <<"Unexpected error during document processing: ">>
                           \o e.msg]
    ELSE e

\* the three except clauses of process_document, in order
process_document_except(e) ==
    IF e.kind # "raise" THEN e
    ELSE IF isinstance(e.exc, "FileNotFoundError")
    THEN [e EXCEPT !.exc = "FileLoadError",
                   !.msg = <<"Document processing failed: ">> \o e.msg]
    ELSE IF isinstance(e.exc, "UnsupportedFileTypeError")
    THEN [e EXCEPT !.exc = "FileLoadError",
                   !.msg = <<"Document processing failed: ">> \o e.msg]
    ELSE IF isinstance(e.exc, "Exception")
    THEN [e EXCEPT !.exc = "FileLoadError",
                   !.msg = <<"Unexpected error during document processing: ">>
                           \o e.msg]
    ELSE e

\* mutant: the call clears the overlap of the held Configuration
process_document_try_WritesConfig(self, fsys, file_path, flag) ==
    LET made == create_loader(fsys, file_path)
    IN  IF made.kind = "raise" THEN Call(self, made)
        ELSE IF flag
        THEN LET ts == create_text_splitter(self.config)
                 got == load_and_split(fsys, made.loader, ts.out.splitter)
             IN  Call([self EXCEPT !.config.chunk_overlap = 0],
                      [got EXCEPT !.parsers = made.parsers,
                                  !.called = "load_and_split",
                                  !.splitter = ts.out.splitter])
        ELSE LET got == load(fsys, made.loader)
             IN  Call(self, [got EXCEPT !.parsers = made.parsers,
                                        !.called = "load"])

\* the try block of process_document; the outcome also records the parser
\* classes instantiated, the Loader method called and the splitter passed
process_document_try(self, fsys, file_path, flag) ==
    LET made == create_loader(fsys, file_path)
    IN  IF made.kind = "raise" THEN Call(self, made)
        ELSE IF flag
        THEN LET ts == create_text_splitter(self.config)
                 got == load_and_split(fsys, made.loader, ts.out.splitter)
             IN  Call([self EXCEPT !.config = ts.self],
                      [got EXCEPT !.parsers = made.parsers,
                                  !.called = "load_and_split",
                                  !.splitter = ts.out.splitter])
        ELSE LET got == load(fsys, made.loader)
             IN  Call(self, [got EXCEPT !.parsers = made.parsers,
                                        !.called = "load"])

process_document(self, fsys, file_path, flag) ==
    LET body == process_document_try(self, fsys, file_path, flag)
    IN  Call(body.self, process_document_except(body.out))

(***************************************************************************)
(* State machine.  fs is the file system; config is a Configuration the    *)
(* caller constructed; processor is the caller's DocumentProcessor; loader *)
(* is the Loader the caller holds; result is the last call: its operation, *)
(* its arguments, the Loader it was called on and its outcome.             *)
(***************************************************************************)
Ints ==
    (-1..MaxChunk) \cup {DefaultChunkSize, DefaultChunkOverlap,
                         ExampleChunkSize, ExampleChunkOverlap}

\* the Configuration objects the facade is set up with
SmallConfigs ==
    {c \in {DocumentProcessorConfig_init(s, o).self :
                s \in (1..MaxChunk) \cup {ExampleChunkSize},
                o \in (0..MaxChunk) \cup {ExampleChunkOverlap}} : c.made}

\* the splitters a Configuration of SmallConfigs produces
Splitters == {create_text_splitter(c).out.splitter : c \in SmallConfigs}

Called(op, p, flag, size, overlap, on, out) ==
    [op |-> op, path |-> p, flag |-> flag, chunk_size |-> size,
     chunk_overlap |-> overlap, on |-> on, out |-> out]

Idle == Called("-", << >>, FALSE, 0, 0, NoLoader, ReturnNone)

Init ==
    /\ fs = [p \in Paths |-> Absent]
    /\ config = NoConfig
    /\ processor = NoProcessor
    /\ loader = NoLoader
    /\ result = Idle

\* the environment creates or replaces a file or directory
WriteFile(p, c) ==
    /\ fs[p] # c
    /\ Cardinality({q \in Paths : exists(fs, q)} \cup {p}) <= MaxFiles
    /\ fs' = [fs EXCEPT ![p] = c]
    /\ result' = Idle
    /\ UNCHANGED <<config, processor, loader>>

\* the environment removes a file or directory
RemoveFile(p) ==
    /\ exists(fs, p)
    /\ fs' = [fs EXCEPT ![p] = Absent]
    /\ result' = Idle
    /\ UNCHANGED <<config, processor, loader>>

\* config = DocumentProcessorConfig(chunk_size, chunk_overlap)
ConstructConfig(size, overlap) ==
    LET r == DocumentProcessorConfig_init(size, overlap)
    IN  /\ config' = IF r.out.kind = "return" THEN r.self ELSE config
        /\ result' = Called("DocumentProcessorConfig", << >>, FALSE, size,
                            overlap, NoLoader, r.out)
        /\ UNCHANGED <<fs, processor, loader>>

\* config.create_text_splitter()
CreateTextSplitter ==
    /\ config.made
    /\ LET r == create_text_splitter(config)
       IN  /\ config' = r.self
           /\ result' = Called("create_text_splitter", << >>, FALSE, 0, 0,
                               NoLoader, r.out)
    /\ UNCHANGED <<fs, processor, loader>>

\* processor = DocumentProcessor(cfg), cfg a Configuration or None
NewProcessor(cfg) ==
    LET r == DocumentProcessor_init(cfg)
    IN  /\ processor' = IF r.out.kind = "return" THEN r.self ELSE processor
        /\ result' = Called("DocumentProcessor", << >>, FALSE, cfg.chunk_size,
                            cfg.chunk_overlap, NoLoader, r.out)
        /\ UNCHANGED <<fs, config, loader>>

\* processor.config.create_text_splitter()
ProcessorSplitter ==
    /\ processor.made
    /\ LET r == create_text_splitter(processor.config)
       IN  /\ processor' = [processor EXCEPT !.config = r.self]
           /\ result' = Called("create_text_splitter", << >>, FALSE, 0, 0,
                               NoLoader, r.out)
    /\ UNCHANGED <<fs, config, loader>>

\* processor.process_document(file_path, load_and_split)
ProcessDocument(p, flag) ==
    /\ processor.made
    /\ LET r == process_document(processor, fs, p, flag)
       IN  /\ processor' = r.self
           /\ result' = Called("process_document", p, flag, 0, 0, NoLoader,
                               r.out)
    /\ UNCHANGED <<fs, config, loader>>

Constructed(op, p, out) ==
    /\ loader' = IF out.kind = "return" THEN out.loader ELSE loader
    /\ result' = Called(op, p, FALSE, 0, 0, NoLoader, out)
    /\ UNCHANGED <<fs, config, processor>>

\* loader = DocumentLoaderFactory.create_loader(file_path)
CreateLoader(p) == Constructed("create_loader", p, create_loader(fs, p))

\* loader = PDFDocumentLoader(file_path), and likewise for DOCX and TXT
ConstructPDF(p) ==
    Constructed("PDFDocumentLoader", p, PDFDocumentLoader_init(fs, p))

ConstructDOCX(p) ==
    Constructed("DOCXDocumentLoader", p, DOCXDocumentLoader_init(fs, p))

ConstructTXT(p) ==
    Constructed("TXTDocumentLoader", p, TXTDocumentLoader_init(fs, p))

\* loader.load()
Load ==
    /\ loader # NoLoader
    /\ result' = Called("load", loader.file_path, FALSE, 0, 0, loader,
                        load(fs, loader))
    /\ UNCHANGED <<fs, config, processor, loader>>

\* loader.load_and_split(text_splitter)
LoadAndSplit(spl) ==
    /\ loader # NoLoader
    /\ result' = Called("load_and_split", loader.file_path, TRUE,
                        spl.chunk_size, spl.chunk_overlap, loader,
                        load_and_split(fs, loader, spl))
    /\ UNCHANGED <<fs, config, processor, loader>>

Environment(paths) ==
    \/ \E p \in paths, c \in Contents : WriteFile(p, c)
    \/ \E p \in paths : RemoveFile(p)

\* the facade: processors over the files of the file system
Next ==
    \/ Environment(Paths)
    \/ \E cfg \in SmallConfigs \cup {NoConfig} : NewProcessor(cfg)
    \/ ProcessorSplitter
    \/ \E p \in Paths, flag \in BOOLEAN : ProcessDocument(p, flag)

Spec == Init /\ [][Next]_vars

\* the Selector and the Loader constructors, called directly
SelectorNext ==
    \/ Environment(Paths)
    \/ \E p \in Paths : CreateLoader(p)
    \/ \E p \in Paths : ConstructPDF(p)
    \/ \E p \in Paths : ConstructDOCX(p)
    \/ \E p \in Paths : ConstructTXT(p)

SelectorSpec == Init /\ [][SelectorNext]_vars

\* a held Loader, loaded from while the file system changes under it
LoaderNext ==
    \/ Environment(LoadPaths)
    \/ \E p \in LoadPaths : CreateLoader(p)
    \/ \E p \in LoadPaths : ConstructPDF(p)
    \/ \E p \in LoadPaths : ConstructDOCX(p)
    \/ \E p \in LoadPaths : ConstructTXT(p)
    \/ Load
    \/ \E spl \in Splitters : LoadAndSplit(spl)

LoaderSpec == Init /\ [][LoaderNext]_vars

\* Configuration construction over all pairs of integers of the domain
ConfigNext ==
    \/ \E size \in Ints, overlap \in Ints : ConstructConfig(size, overlap)
    \/ CreateTextSplitter

ConfigSpec == Init /\ [][ConfigNext]_vars

(***************************************************************************)
(* Properties.                                                             *)
(***************************************************************************)
\* The paths of Paths by the extension os.path.splitext gives them, written
\* out by hand (case-insensitively).
PdfPaths == { <<"a", ".", "p", "d", "f">>, <<"a", ".", "P", "d", "F">> }
DocxPaths == { <<"a", ".", "d", "o", "c", "x">> }
TxtPaths == { <<"b", ".", "a", ".", "T", "x", "t">> }
UnrecognizedPaths == Paths \ (PdfPaths \cup DocxPaths \cup TxtPaths)

\* sub occurs in msg as a contiguous run
Contains(msg, sub) ==
    \E i \in 0..(Len(msg) - Len(sub)) : SubSeq(msg, i + 1, i + Len(sub)) = sub

\* what the parser of a Loader yields for the Loader's path
ParserLoad(ldr, fsys) ==
    CASE ldr.parser = "PyPDFLoader" -> PyPDFLoader_load(fsys, ldr.file_path)
      [] ldr.parser = "Docx2txtLoader" -> Docx2txtLoader_load(fsys, ldr.file_path)
      [] OTHER -> TextLoader_load(fsys, ldr.file_path)

FailedMsg == <<"Document processing failed: ">>
UnexpectedMsg == <<"Unexpected error during document processing: ">>

\* C1: every failing process_document call raises FileLoadError, whatever
\* the path, the flag and the failure underneath.
C1_OnlyLoadFailureEscapes ==
    (result.op = "process_document" /\ result.out.kind = "raise")
        => result.out.exc = "FileLoadError"

\* a call on a directory named like a PDF: the parser constructor's
\* ValueError reaches the facade and leaves it as FileLoadError
C1_Witness ==
    /\ result.op = "process_document"
    /\ result.out.kind = "raise"
    /\ fs[result.path].kind = "dir"
    /\ create_loader(fs, result.path).exc = "ValueError"

\* C2: a FileNotFoundError or UnsupportedFileTypeError of the selection is
\* re-raised with "Document processing failed: " + its message; any other
\* failure (a parser constructor's error, the Loader's FileLoadError) with
\* "Unexpected error during document processing: " + its message.
C2_MessagePrefixes ==
    result.op = "process_document" =>
        LET sel == create_loader(fs, result.path)
            inner == IF result.flag
                     THEN load_and_split(fs, sel.loader,
                              [chunk_size |-> processor.config.chunk_size,
                               chunk_overlap |-> processor.config.chunk_overlap])
                     ELSE load(fs, sel.loader)
        IN  IF sel.kind = "raise"
            THEN /\ result.out.kind = "raise"
                 /\ result.out.msg =
                        (IF sel.exc \in {"FileNotFoundError",
                                         "UnsupportedFileTypeError"}
                         THEN FailedMsg ELSE UnexpectedMsg) \o sel.msg
            ELSE IF inner.kind = "raise"
            THEN /\ inner.exc = "FileLoadError"
                 /\ result.out.kind = "raise"
                 /\ result.out.msg = UnexpectedMsg \o inner.msg
            ELSE result.out.kind = "return"

\* the Loader's own FileLoadError, wrapped a second time by the facade
C2_Witness ==
    /\ result.op = "process_document"
    /\ result.path \in DocxPaths
    /\ fs[result.path] = CorruptFile
    /\ result.out.msg = UnexpectedMsg \o <<"Error loading DOCX file: ">>
                        \o <<"File is not a zip file">>

\* C3 as stated: create_loader raises UnsupportedFileTypeError for every path
\* whose extension is not pdf, docx or txt.
C3_Original ==
    (result.op = "create_loader" /\ result.path \in UnrecognizedPaths)
        => (result.out.kind = "raise"
            /\ result.out.exc = "UnsupportedFileTypeError")

\* C3 amended: create_loader raises UnsupportedFileTypeError for every
\* existing path whose extension, lower-cased, is not pdf, docx or txt.
C3_UnsupportedWhenExists ==
    (result.op = "create_loader" /\ result.path \in UnrecognizedPaths
     /\ exists(fs, result.path))
        => (result.out.kind = "raise"
            /\ result.out.exc = "UnsupportedFileTypeError"
            /\ result.out.parsers = {})

C3_Witness ==
    /\ result.op = "create_loader"
    /\ result.path = <<"a", ".", "c", "s", "v">>
    /\ exists(fs, result.path)
    /\ result.out.exc = "UnsupportedFileTypeError"

\* C4: for a path that does not exist, create_loader and each of the three
\* Loader constructors raise FileNotFoundError before any parser is built.
C4_FileNotFoundFirst ==
    (result.op \in {"create_loader", "PDFDocumentLoader",
                    "DOCXDocumentLoader", "TXTDocumentLoader"}
     /\ ~exists(fs, result.path))
        => (result.out.kind = "raise"
            /\ result.out.exc = "FileNotFoundError"
            /\ result.out.parsers = {})

C4_Witness ==
    /\ result.op = "PDFDocumentLoader"
    /\ ~exists(fs, result.path)
    /\ result.path \in UnrecognizedPaths
    /\ result.out.exc = "FileNotFoundError"

\* C5: for an existing regular file whose extension is pdf, docx or txt in
\* any letter case, create_loader returns the Loader of that variant, with
\* that variant's parser, bound to the same path.
C5_SelectsMatchingLoader ==
    (result.op = "create_loader" /\ fs[result.path].kind = "file"
     /\ result.path \notin UnrecognizedPaths)
        => (/\ result.out.kind = "return"
            /\ result.out.loader.file_path = result.path
            /\ loader = result.out.loader
            /\ result.path \in PdfPaths =>
                   (result.out.loader.variant = "pdf"
                    /\ result.out.loader.parser = "PyPDFLoader")
            /\ result.path \in DocxPaths =>
                   (result.out.loader.variant = "docx"
                    /\ result.out.loader.parser = "Docx2txtLoader")
            /\ result.path \in TxtPaths =>
                   (result.out.loader.variant = "txt"
                    /\ result.out.loader.parser = "TextLoader"))

C5_Witness ==
    /\ result.op = "create_loader"
    /\ result.path = <<"a", ".", "P", "d", "F">>
    /\ fs[result.path].kind = "file"
    /\ result.out.loader.variant = "pdf"

\* C6: DocumentProcessorConfig(chunk_size, chunk_overlap) returns exactly
\* when 0 <= chunk_overlap < chunk_size and raises InvalidConfigurationError
\* otherwise; every Configuration that exists satisfies the invariant and
\* holds the values it was given; the defaults are accepted.
C6_ConfigInvariant ==
    /\ result.op = "DocumentProcessorConfig" =>
           /\ result.out.kind = "return" <=>
                  (0 <= result.chunk_overlap
                   /\ result.chunk_overlap < result.chunk_size)
           /\ result.out.kind = "raise" =>
                  result.out.exc = "InvalidConfigurationError"
           /\ result.out.kind = "return" =>
                  (config.chunk_size = result.chunk_size
                   /\ config.chunk_overlap = result.chunk_overlap)
           /\ (result.chunk_size = DefaultChunkSize
               /\ result.chunk_overlap = DefaultChunkOverlap) =>
                  result.out.kind = "return"
    /\ config.made =>
           (0 <= config.chunk_overlap
            /\ config.chunk_overlap < config.chunk_size
            /\ config.chunk_size > 0)

C6_Witness ==
    /\ result.op = "DocumentProcessorConfig"
    /\ result.out.kind = "return"
    /\ config = [made |-> TRUE, chunk_size |-> DefaultChunkSize,
                 chunk_overlap |-> DefaultChunkOverlap]

\* C7: once the Selector has given a Loader, process_document with the flag
\* set calls load_and_split with a splitter of exactly the held
\* Configuration's chunk_size and chunk_overlap and returns the parser's
\* records split by it; with the flag clear it calls load, builds no
\* splitter and returns the parser's records as they are.
C7_FacadeDispatch ==
    (result.op = "process_document"
     /\ create_loader(fs, result.path).kind = "return")
        => LET ldr == create_loader(fs, result.path).loader
               raw == ParserLoad(ldr, fs)
               held == [chunk_size |-> processor.config.chunk_size,
                        chunk_overlap |-> processor.config.chunk_overlap]
           IN  IF result.flag
               THEN /\ result.out.called = "load_and_split"
                    /\ result.out.splitter = held
                    /\ raw.kind = "return" =>
                           (result.out.kind = "return"
                            /\ result.out.docs = split_documents(raw.docs, held))
               ELSE /\ result.out.called = "load"
                    /\ result.out.splitter = NoSplitter
                    /\ raw.kind = "return" =>
                           (result.out.kind = "return"
                            /\ result.out.docs = raw.docs)

\* the example configuration reaches the splitter, and a smaller one cuts
\* the two pages of the PDF into more than two chunks
C7_Witness ==
    /\ result.op = "process_document"
    /\ result.flag
    /\ result.path \in PdfPaths
    /\ result.out.kind = "return"
    /\ result.out.splitter = [chunk_size |-> 3, chunk_overlap |-> 1]
    /\ Len(result.out.docs) > 2

\* C8: process_document and create_text_splitter leave the held
\* Configuration as it was, and a process_document call repeated on the
\* unchanged file system with the same arguments gives the same outcome.
C8_ConfigUntouched ==
    [][/\ result'.op \in {"process_document", "create_text_splitter"} =>
              processor'.config = processor.config
       /\ (result.op = "process_document" /\ result'.op = "process_document"
           /\ result'.path = result.path /\ result'.flag = result.flag
           /\ fs' = fs) => result'.out = result.out]_vars

C8_Witness ==
    /\ result.op = "process_document"
    /\ result.flag
    /\ result.out.kind = "return"
    /\ Len(result.out.docs) > 2
    /\ processor.config = [made |-> TRUE, chunk_size |-> 2, chunk_overlap |-> 1]

C10_ValidationOrder ==
    result.op = "DocumentProcessorConfig" =>
        /\ result.chunk_size <= 0 =>
               (result.out.kind = "raise"
                /\ result.out.msg = <<"chunk_size must be positive">>)
        /\ (result.chunk_size > 0 /\ result.chunk_overlap < 0) =>
               (result.out.kind = "raise"
                /\ result.out.msg = <<"chunk_overlap cannot be negative">>)
        /\ (result.chunk_size > 0 /\ result.chunk_overlap >= 0
            /\ result.chunk_overlap >= result.chunk_size) =>
               (result.out.kind = "raise"
                /\ result.out.msg =
                       <<"chunk_overlap must be smaller than chunk_size">>)

C10_Witness ==
    /\ result.op = "DocumentProcessorConfig"
    /\ result.chunk_size <= 0
    /\ result.chunk_overlap < 0
    /\ result.out.msg = <<"chunk_size must be positive">>

====
